---- MODULE Spec2Model ----
(***************************************************************************)
(* Model of app.py: the free-text record parser (norm, parse), the LINE    *)
(* webhook handler that persists parsed records, and the /ship/notify      *)
(* endpoint.                                                               *)
(*                                                                         *)
(* A Python str is modelled as a sequence of one-character strings.  The   *)
(* module's strings are ASCII, so every CJK / full-width character is      *)
(* written by its code point ("u7D00" is U+7D00).                          *)
(***************************************************************************)
EXTENDS Integers, Sequences, FiniteSets, TLC

VARIABLES
    text, result, pc,                      \* one call of parse
    events, cursor, data, rows, log, hpc,  \* one delivery to /line/webhook
    secret, sheet, req, vals, pushes, resp, served, spc   \* /ship/notify

parseVars == <<text, result, pc>>
hookVars  == <<events, cursor, data, rows, log, hpc>>
shipVars  == <<secret, sheet, req, vals, pushes, resp, served, spc>>
vars      == <<parseVars, hookVars, shipVars>>

(***************************************************************************)
(* Characters                                                              *)
(***************************************************************************)
JI_TRAD  == "u7D00"   \* U+7D00, first character of the record token
JI_SIMP  == "u8BB0"   \* U+8BB0, its accepted variant
LU       == "u9304"   \* U+9304, second character of the record token
FWCOLON  == "uFF1A"   \* U+FF1A full-width colon
FWCOMMA  == "uFF0C"   \* U+FF0C full-width comma
FWSEMI   == "uFF1B"   \* U+FF1B full-width semicolon
IDSPACE  == "u3000"   \* U+3000 ideographic space
PIN      == "u54C1"
XIANG    == "u9805"
MU       == "u76EE"
MING     == "u540D"
SHU      == "u6578"
LIANG    == "u91CF"
DAN      == "u55AE"
JIA      == "u50F9"
GE       == "u683C"
BEI      == "u5099"
ZHU      == "u8A3B"
SHUO     == "u8AAA"
MING2    == "u660E"

\* \s of the re module and the characters str.strip() removes
IsSpace(c) == c \in {" ", "\t", "\n", "\r", IDSPACE}

UpperAZ == <<"A","B","C","D","E","F","G","H","I","J","K","L","M",
             "N","O","P","Q","R","S","T","U","V","W","X","Y","Z">>
LowerAZ == <<"a","b","c","d","e","f","g","h","i","j","k","l","m",
             "n","o","p","q","r","s","t","u","v","w","x","y","z">>

\* str.lower() on one character
LowerChar(c) ==
    IF \E i \in 1..26 : UpperAZ[i] = c
    THEN LowerAZ[CHOOSE i \in 1..26 : UpperAZ[i] = c]
    ELSE c

\* str.lower()
Lower(s) == [i \in 1..Len(s) |-> LowerChar(s[i])]

RECURSIVE LStrip(_)
LStrip(s) == IF s # <<>> /\ IsSpace(s[1]) THEN LStrip(Tail(s)) ELSE s

RECURSIVE RStrip(_)
RStrip(s) ==
    IF s # <<>> /\ IsSpace(s[Len(s)]) THEN RStrip(SubSeq(s, 1, Len(s) - 1)) ELSE s

\* str.strip()
Strip(s) == RStrip(LStrip(s))

\* index of the first character of s that is in set cs, 0 when there is none
FirstIn(s, cs) ==
    IF \E i \in 1..Len(s) : s[i] \in cs
    THEN CHOOSE i \in 1..Len(s) : s[i] \in cs /\ \A j \in 1..(i - 1) : s[j] \notin cs
    ELSE 0

\* re.split(pattern of one character class, s, 1): one or two pieces
SplitOnce(s, cs) ==
    LET i == FirstIn(s, cs)
    IN  IF i = 0 THEN <<s>>
        ELSE <<SubSeq(s, 1, i - 1), SubSeq(s, i + 1, Len(s))>>

(***************************************************************************)
(* Values of the result dict: None, a str, an int or a float.  A float is  *)
(* the decimal n * 10^e with n carrying no trailing zero.                  *)
(***************************************************************************)
NoneV       == [t |-> "None",  s |-> <<>>, n |-> 0, e |-> 0]
StrV(s)     == [t |-> "str",   s |-> s,    n |-> 0, e |-> 0]
IntV(n)     == [t |-> "int",   s |-> <<>>, n |-> n, e |-> 0]

RECURSIVE FloatV(_, _)
FloatV(n, e) ==
    IF n = 0 THEN [t |-> "float", s |-> <<>>, n |-> 0, e |-> 0]
    ELSE IF n % 10 = 0 THEN FloatV(n \div 10, e + 1)
    ELSE [t |-> "float", s |-> <<>>, n |-> n, e |-> e]

\* bool(v) of a value of the result dict
Truthy(v) ==
    CASE v.t = "None"  -> FALSE
      [] v.t = "str"   -> v.s # <<>>
      [] OTHER         -> v.n # 0

(***************************************************************************)
(* norm                                                                    *)
(***************************************************************************)
Fields == <<"item", "qty", "price", "note">>

ALIASES ==
    [item  |-> << <<PIN, XIANG>>, <<XIANG, MU>>, <<PIN, MING>>, <<"i","t","e","m">> >>,
     qty   |-> << <<SHU, LIANG>>, <<SHU, MU>>, <<"q","t","y">>, <<SHU>> >>,
     price |-> << <<DAN, JIA>>, <<JIA, GE>>, <<JIA>>, <<"p","r","i","c","e">> >>,
     note  |-> << <<BEI, ZHU>>, <<BEI, ZHU, SHUO, MING2>>, <<"n","o","t","e">> >>]

\* variant of NormKey that compares the label in the case it was written in
NormKeyNoLower(k) == Strip(k)

\* the label as norm compares it
NormKey(k) == Lower(Strip(k))

\* for a in arr: if k == a.lower()
AliasHit(k, std) ==
    \E j \in 1..Len(ALIASES[std]) : k = Lower(ALIASES[std][j])

\* norm(k): the first field, in dict order, with an alias equal to the key;
\* "None" when no alias is
norm(k) ==
    LET kk == NormKey(k)
    IN  IF \E i \in 1..4 : AliasHit(kk, Fields[i])
        THEN Fields[CHOOSE i \in 1..4 :
                      AliasHit(kk, Fields[i])
                      /\ \A j \in 1..(i - 1) : ~AliasHit(kk, Fields[j])]
        ELSE "None"

(***************************************************************************)
(* num (the closure of parse): int() and float() of a str                  *)
(***************************************************************************)
Digits == <<"0","1","2","3","4","5","6","7","8","9">>

IsDigit(c) == \E i \in 1..10 : Digits[i] = c

DigitVal(c) == (CHOOSE i \in 1..10 : Digits[i] = c) - 1

\* s.replace(",", "")
RECURSIVE RemoveCommas(_)
RemoveCommas(s) ==
    IF s = <<>> THEN <<>>
    ELSE IF s[1] = "," THEN RemoveCommas(Tail(s))
    ELSE <<s[1]>> \o RemoveCommas(Tail(s))

\* digit ("_"? digit)* : the digit part of a Python numeric literal string
ValidDigits(s) ==
    /\ s # <<>>
    /\ IsDigit(s[1])
    /\ IsDigit(s[Len(s)])
    /\ \A i \in 1..Len(s) : IsDigit(s[i]) \/ s[i] = "_"
    /\ \A i \in 1..(Len(s) - 1) : ~(s[i] = "_" /\ s[i + 1] = "_")

RECURSIVE DigitsValue(_, _)
DigitsValue(s, acc) ==
    IF s = <<>> THEN acc
    ELSE IF s[1] = "_" THEN DigitsValue(Tail(s), acc)
    ELSE DigitsValue(Tail(s), acc * 10 + DigitVal(s[1]))

RECURSIVE DigitCount(_)
DigitCount(s) ==
    IF s = <<>> THEN 0
    ELSE (IF s[1] = "_" THEN 0 ELSE 1) + DigitCount(Tail(s))

RECURSIVE Pow10(_)
Pow10(k) == IF k <= 0 THEN 1 ELSE 10 * Pow10(k - 1)

HasSign(s) == s # <<>> /\ s[1] \in {"+", "-"}
Unsigned(s) == IF HasSign(s) THEN Tail(s) ELSE s
SignOf(s) == IF s # <<>> /\ s[1] = "-" THEN -1 ELSE 1

\* int(s) of a stripped str: NoneV stands for the ValueError
ParseInt(s) ==
    IF ValidDigits(Unsigned(s))
    THEN IntV(SignOf(s) * DigitsValue(Unsigned(s), 0))
    ELSE NoneV

\* float(s) of a stripped str that contains ".": NoneV stands for the ValueError
ParseFloat(s) ==
    LET u    == Unsigned(s)
        ei   == FirstIn(u, {"e", "E"})
        mant == IF ei = 0 THEN u ELSE SubSeq(u, 1, ei - 1)
        ex   == IF ei = 0 THEN <<>> ELSE SubSeq(u, ei + 1, Len(u))
        di   == FirstIn(mant, {"."})
        ip   == SubSeq(mant, 1, di - 1)
        fp   == SubSeq(mant, di + 1, Len(mant))
        exOk == ei = 0 \/ ValidDigits(Unsigned(ex))
        exV  == IF ei = 0 THEN 0 ELSE SignOf(ex) * DigitsValue(Unsigned(ex), 0)
    IN  IF /\ di # 0
           /\ (ip = <<>> \/ ValidDigits(ip))
           /\ (fp = <<>> \/ ValidDigits(fp))
           /\ ~(ip = <<>> /\ fp = <<>>)
           /\ exOk
        THEN FloatV(SignOf(s) * (DigitsValue(ip, 0) * Pow10(DigitCount(fp))
                                 + DigitsValue(fp, 0)),
                    exV - DigitCount(fp))
        ELSE NoneV

\* the str num converts: s.replace(",","").strip()
NumText(s) == Strip(RemoveCommas(s))

\* variant of num that hands back the text it could not convert
numKeepString(v) ==
    IF v.t = "None" THEN NoneV
    ELSE LET s == NumText(v.s)
             c == IF "." \in {s[i] : i \in 1..Len(s)} THEN ParseFloat(s) ELSE ParseInt(s)
         IN  IF c = NoneV THEN v ELSE c

\* num(s)
num(v) ==
    IF v.t = "None" THEN NoneV
    ELSE LET s == NumText(v.s)
         IN  IF "." \in {s[i] : i \in 1..Len(s)} THEN ParseFloat(s) ELSE ParseInt(s)

(***************************************************************************)
(* parse                                                                   *)
(***************************************************************************)
Colons     == {":", FWCOLON}
PartDelims == {",", FWCOMMA, ";", FWSEMI, "\n"}
KeySeps    == {"=", FWCOLON, ":"}
NoteJoin   == <<" ", "|", " ">>

\* variant of Matches that does not look at the character after the token
MatchesNoDelim(t) ==
    LET s == LStrip(t)
    IN  /\ Len(s) >= 3
        /\ s[1] \in {JI_TRAD, JI_SIMP}
        /\ s[2] = LU

\* re.match(r"^\s*[JI_TRAD JI_SIMP]LU[:FWCOLON\s]", text)
Matches(t) ==
    LET s == LStrip(t)
    IN  /\ Len(s) >= 3
        /\ s[1] \in {JI_TRAD, JI_SIMP}
        /\ s[2] = LU
        /\ (s[3] \in Colons \/ IsSpace(s[3]))

\* the run of delimiters at the head of s removed
RECURSIVE DropDelims(_)
DropDelims(s) ==
    IF s # <<>> /\ s[1] \in PartDelims THEN DropDelims(Tail(s)) ELSE s

\* re.split(r"[,;\n...]+", body)
RECURSIVE SplitParts(_)
SplitParts(s) ==
    LET i == FirstIn(s, PartDelims)
    IN  IF i = 0 THEN <<s>>
        ELSE <<SubSeq(s, 1, i - 1)>> \o SplitParts(DropDelims(SubSeq(s, i, Len(s))))

EmptyRecord == [item |-> NoneV, qty |-> NoneV, price |-> NoneV, note |-> NoneV]

\* variant of SetField that keeps a value already set
SetFieldKeepFirst(r, std, v) ==
    IF r[std].t = "None" THEN [r EXCEPT ![std] = StrV(v)] ELSE r

\* r[std] = v
SetField(r, std, v) == [r EXCEPT ![std] = StrV(v)]

\* r["note"] = (r["note"]+" | " if r["note"] else "") + p.strip()
AppendNote(r, p) ==
    [r EXCEPT !.note =
        StrV((IF Truthy(r.note) THEN r.note.s \o NoteJoin ELSE <<>>) \o Strip(p))]

\* variant of Labelled that keeps a fragment with an unknown label as note text
LabelledKeepUnresolved(r, kv) ==
    LET k   == Strip(kv[1])
        v   == Strip(kv[2])
        std == norm(k)
    IN  IF std # "None" THEN SetField(r, std, v) ELSE AppendNote(r, kv[1] \o <<"=">> \o kv[2])

\* the len(kv)==2 branch: a resolved label sets its field, any other is dropped
Labelled(r, kv) ==
    LET k   == Strip(kv[1])
        v   == Strip(kv[2])
        std == norm(k)
    IN  IF std # "None" THEN SetField(r, std, v) ELSE r

\* one iteration of "for p in parts"
Classify(r, p) ==
    IF Strip(p) = <<>> THEN r
    ELSE LET kv == SplitOnce(p, KeySeps)
         IN  IF Len(kv) = 2 THEN Labelled(r, kv) ELSE AppendNote(r, p)

RECURSIVE ParseParts(_, _)
ParseParts(r, parts) ==
    IF parts = <<>> THEN r
    ELSE ParseParts(Classify(r, Head(parts)), Tail(parts))

\* r["qty"]=num(r["qty"]); r["price"]=num(r["price"])
Coerce(r) == [r EXCEPT !.qty = num(r.qty), !.price = num(r.price)]

\* the part of parse after the body is cut out
ParseBody(body) ==
    [kind |-> "record", r |-> Coerce(ParseParts(EmptyRecord, SplitParts(body)))]

NotARecord == [kind |-> "None", r |-> EmptyRecord]
IndexError == [kind |-> "IndexError", r |-> EmptyRecord]

\* parse(text): NotARecord for return None, IndexError for the exception that
\* re.split(...)[1] raises on a text without a colon
parse(t) ==
    IF ~Matches(t) THEN NotARecord
    ELSE LET sp == SplitOnce(t, Colons)
         IN  IF Len(sp) < 2 THEN IndexError
             ELSE ParseBody(Strip(sp[2]))

(***************************************************************************)
(* Inputs of the parser specification                                      *)
(***************************************************************************)
MaxFrags == 3
MaxSynFrags == 2

\* texts that begin a record command: token, then ":" / full-width colon /
\* whitespace (the last one carries no colon of its own)
RecordPrefixes ==
    { <<JI_TRAD, LU, ":">>,
      <<" ", JI_SIMP, LU, FWCOLON>>,
      <<JI_TRAD, LU, " ">> }

\* beginnings that are no record command
OtherPrefixes ==
    { <<>>,
      <<JI_TRAD, LU>>,
      <<JI_TRAD, LU, "=">>,
      <<JI_TRAD, ":">>,
      <<LU, ":">>,
      <<"x", JI_TRAD, LU, ":">>,
      <<":", JI_SIMP, LU, ":">>,
      <<JI_TRAD, " ", LU, ":">> }

Fragments ==
    { <<PIN, XIANG, "=", "A">>,
      <<" ", "I", "t", "e", "m", " ", ":", " ", "B">>,
      <<SHU, LIANG, "=", "1">>,
      <<"0", "0", "0">>,
      <<"q", "t", "y", "=", "x">>,
      <<DAN, JIA, "=", "5", ".", "5">>,
      <<BEI, ZHU, "=", "N">>,
      <<"h", "i", FWSEMI>>,
      <<PIN, "=", "X">>,
      <<JIA, FWCOLON, ".">> }

\* the fragments of fs joined with sep
RECURSIVE Join(_, _)
Join(fs, sep) ==
    IF fs = <<>> THEN <<>>
    ELSE IF Len(fs) = 1 THEN fs[1]
    ELSE fs[1] \o sep \o Join(Tail(fs), sep)

Bodies(k) == { Join(fs, <<",">>) : fs \in UNION { [1..n -> Fragments] : n \in 0..k } }

Texts ==
    { p \o b : p \in RecordPrefixes, b \in Bodies(MaxFrags) }
    \cup { p \o b : p \in OtherPrefixes, b \in Bodies(1) }

Unset == [kind |-> "unset", r |-> EmptyRecord]

(***************************************************************************)
(* webhook: one delivery to /line/webhook                                  *)
(***************************************************************************)
MaxEvents == 2

EmptyStr == StrV(<<>>)
NowStr   == StrV(<<"n", "o", "w">>)      \* now_str()

\* an event of a delivery: a text message of a user, or any other event
TextEvent(t, u) == [isText |-> TRUE, text |-> t, user |-> u]
OtherEvent      == [isText |-> FALSE, text |-> <<>>, user |-> "None"]

EventKinds ==
    { TextEvent(<<"h", "i">>, "U1"),
      TextEvent(<<JI_TRAD, LU, ":", PIN, XIANG, "=", "A", ",", SHU, LIANG, "=", "2",
                  ",", DAN, JIA, "=", "5", ".", "5">>, "U1"),
      TextEvent(<<" ", JI_SIMP, LU, " ", "q", "t", "y", FWCOLON, "0", " ">>, "None"),
      TextEvent(<<JI_TRAD, LU, " ", PIN, XIANG, "=", "A">>, "U1"),
      TextEvent(<<JI_TRAD, LU, " ">>, "U1"),
      OtherEvent }

Deliveries == UNION { [1..n -> EventKinds] : n \in 1..MaxEvents }

\* x or ""
OrEmpty(v) == IF Truthy(v) THEN v ELSE EmptyStr

IsNumber(v) == v.t \in {"int", "float"}

\* qty*price if both are numbers else ""
Amount(qty, price) ==
    IF IsNumber(qty) /\ IsNumber(price)
    THEN IF qty.t = "int" /\ price.t = "int"
         THEN IntV(qty.n * price.n)
         ELSE FloatV(qty.n * price.n, qty.e + price.e)
    ELSE EmptyStr

\* the list handed to ws.append_row
Row(ev, t, d) ==
    << NowStr,
       IF ev.user = "None" THEN EmptyStr ELSE StrV(<<ev.user>>),
       EmptyStr,
       OrEmpty(d.item), OrEmpty(d.qty), OrEmpty(d.price),
       Amount(d.qty, d.price),
       OrEmpty(d.note), StrV(t), EmptyStr, EmptyStr >>

\* a call of an external service made for event ev, and whether it succeeded
Call(ev, op, ok) == [ev |-> ev, op |-> op, ok |-> ok]

\* no request and no response (of /ship/notify)
NoRequest == [header |-> "", row |-> [k |-> "absent", n |-> 0]]
NoResp    == [code |-> 0, body |-> ""]

\* the state of the /ship/notify variables while that endpoint is not modelled
ShipIdle ==
    /\ secret = ""
    /\ sheet = <<>>
    /\ req = NoRequest
    /\ vals = <<>>
    /\ pushes = <<>>
    /\ resp = NoResp
    /\ served = 0
    /\ spc = "off"

\* the state of the webhook variables while the webhook is not modelled
HookIdle ==
    /\ events = <<>>
    /\ cursor = 0
    /\ data = Unset
    /\ rows = <<>>
    /\ log = <<>>
    /\ hpc = "idle"

InitHook ==
    /\ events \in Deliveries
    /\ cursor = 0
    /\ data = Unset
    /\ rows = <<>>
    /\ log = <<>>
    /\ hpc = "signature"
    /\ text = <<>> /\ result = Unset /\ pc = "idle"
    /\ ShipIdle

\* events = parser.parse(body, sig); a bad signature aborts with 400
WhSignature ==
    /\ hpc = "signature"
    /\ \E ok \in BOOLEAN : hpc' = IF ok THEN "sheets" ELSE "abort400"
    /\ UNCHANGED <<events, cursor, data, rows, log, parseVars, shipVars>>

\* gs_client() and ensure_sheet(); on an exception the handler returns "OK"
WhSheets ==
    /\ hpc = "sheets"
    /\ \E ok \in BOOLEAN :
          IF ok THEN hpc' = "loop" /\ cursor' = 1
                ELSE hpc' = "returned" /\ cursor' = cursor
    /\ UNCHANGED <<events, data, rows, log, parseVars, shipVars>>

\* an event that is no text message is passed over
WhSkip ==
    /\ hpc = "loop"
    /\ cursor <= Len(events)
    /\ ~events[cursor].isText
    /\ cursor' = cursor + 1
    /\ UNCHANGED <<events, data, rows, log, hpc, parseVars, shipVars>>

\* where the handler goes after data = parse(t): the exception of parse is
\* caught nowhere and ends the handler
AfterParse(d) ==
    CASE d.kind = "IndexError" -> "crashed"
      [] d.kind = "None"       -> "hint"
      [] OTHER                 -> "append"

\* t = ev.message.text.strip(); data = parse(t)
WhParse ==
    /\ hpc = "loop"
    /\ cursor <= Len(events)
    /\ events[cursor].isText
    /\ data' = parse(Strip(events[cursor].text))
    /\ hpc' = AfterParse(data')
    /\ UNCHANGED <<events, cursor, rows, log, parseVars, shipVars>>

\* if not data: reply the usage hint (a failure is printed), continue
WhHint ==
    /\ hpc = "hint"
    /\ \E ok \in BOOLEAN : log' = Append(log, Call(cursor, "hint", ok))
    /\ cursor' = cursor + 1
    /\ hpc' = "loop"
    /\ UNCHANGED <<events, data, rows, parseVars, shipVars>>

\* ws.append_row([...]); a failure is printed and the loop goes on
WhAppend ==
    /\ hpc = "append"
    /\ \E ok \in BOOLEAN :
          /\ log' = Append(log, Call(cursor, "append", ok))
          /\ IF ok
             THEN /\ rows' = Append(rows, Row(events[cursor],
                                              Strip(events[cursor].text), data.r))
                  /\ hpc' = "confirm"
                  /\ cursor' = cursor
             ELSE /\ rows' = rows
                  /\ hpc' = "loop"
                  /\ cursor' = cursor + 1
    /\ UNCHANGED <<events, data, parseVars, shipVars>>

\* the confirmation reply after the append (a failure is printed)
WhConfirm ==
    /\ hpc = "confirm"
    /\ \E ok \in BOOLEAN : log' = Append(log, Call(cursor, "confirm", ok))
    /\ cursor' = cursor + 1
    /\ hpc' = "loop"
    /\ UNCHANGED <<events, data, rows, parseVars, shipVars>>

\* return "OK" after the last event
WhReturn ==
    /\ hpc = "loop"
    /\ cursor > Len(events)
    /\ hpc' = "returned"
    /\ UNCHANGED <<events, cursor, data, rows, log, parseVars, shipVars>>

NextHook ==
    \/ WhSignature
    \/ WhSheets
    \/ WhSkip
    \/ WhParse
    \/ WhHint
    \/ WhAppend
    \/ WhConfirm
    \/ WhReturn

SpecHook == InitHook /\ [][NextHook]_vars

(***************************************************************************)
(* ship_notify: requests to /ship/notify.  Cells of the sheet are plain    *)
(* strings here; row 1 is the header row.                                  *)
(***************************************************************************)
MaxRows     == 3
MaxRequests == 2

SHIPPED  == "u51FAu8CA8"   \* the ship flag, U+51FA U+8CA8
NOTIFIED == "notified"     \* f"... {ts}", the text written to column K

COL_USER     == 2
COL_FLAG     == 10
COL_NOTIFIED == 11

HeaderRow ==
    <<"Timestamp", "UserId", "DisplayName", "Item", "Quantity", "Price",
      "Amount", "Note", "RawText", "flag", "status">>

\* rows as ws.row_values returns them (trailing empty cells are not returned)
DataRows ==
    { <<"ts", "U1", "", "A", "2", "5", "10", "", "raw", SHIPPED>>,
      <<"ts", "U2", "", "A", "2", "5", "10", "", "raw">>,
      <<"ts", "", "", "A", "2", "5", "10", "", "raw", SHIPPED>>,
      <<"ts", "U1", "", "A", "2", "5", "10", "", "raw", "x", NOTIFIED>>,
      <<>> }

Sheets == { sh \in [1..MaxRows -> DataRows \cup {HeaderRow}] :
               sh[1] = HeaderRow /\ \A r \in 2..MaxRows : sh[r] \in DataRows }

\* the "row" of the JSON body: absent, a number, or no number at all
RowInputs ==
    { [k |-> "absent", n |-> 0], [k |-> "text", n |-> 0] }
    \cup { [k |-> "int", n |-> n] : n \in 0..(MaxRows + 1) }

Requests == [header : {"", "s3", "bad"}, row : RowInputs]

Resp(c, b) == [code |-> c, body |-> b]

\* ws.row_values(row)
RowValues(sh, row) == IF row \in DOMAIN sh THEN sh[row] ELSE <<>>

\* _get(col_idx)
Get(values, col) == IF Len(values) >= col THEN values[col] ELSE ""

\* ws.update_cell(row, col, v)
UpdateCell(sh, row, col, v) ==
    [sh EXCEPT ![row] =
        [c \in 1..(IF Len(@) >= col THEN Len(@) ELSE col) |->
            IF c = col THEN v ELSE IF c <= Len(@) THEN @[c] ELSE ""]]

\* the secret check of the first lines: no secret configured, or the header equal to it
SecretPasses(cfg, header) == cfg = "" \/ header = cfg

\* variant of PushNext that goes on to the write-back whatever the push did
PushNextAlways(ok) == "update"

\* after msg_api.push_message: on to the write-back, or out with 500
PushNext(ok) == IF ok THEN "update" ELSE "idle"

InitShip ==
    /\ secret \in {"", "s3"}
    /\ sheet \in Sheets
    /\ req = NoRequest
    /\ vals = <<>>
    /\ pushes = <<>>
    /\ resp = NoResp
    /\ served = 0
    /\ spc = "idle"
    /\ text = <<>> /\ result = Unset /\ pc = "idle"
    /\ HookIdle

\* a request arrives
SnRequest ==
    /\ spc = "idle"
    /\ served < MaxRequests
    /\ req' \in Requests
    /\ served' = served + 1
    /\ vals' = <<>>
    /\ pushes' = <<>>
    /\ resp' = NoResp
    /\ spc' = "validate"
    /\ UNCHANGED <<secret, sheet, parseVars, hookVars>>

\* the secret check, then row = int(data.get("row") or 0) and row <= 1;
\* int() of a text raises outside the try and the request ends in a 500
SnValidate ==
    /\ spc = "validate"
    /\ IF ~SecretPasses(secret, req.header)
       THEN resp' = Resp(403, "forbidden") /\ spc' = "idle"
       ELSE IF req.row.k = "text"
       THEN resp' = Resp(500, "error") /\ spc' = "idle"
       ELSE IF req.row.n <= 1
       THEN resp' = Resp(400, "bad row") /\ spc' = "idle"
       ELSE resp' = resp /\ spc' = "read"
    /\ UNCHANGED <<secret, sheet, req, vals, pushes, served, parseVars, hookVars>>

\* gs_client ... ws.row_values(row), then the flag and UserId checks
SnRead ==
    /\ spc = "read"
    /\ \E ok \in BOOLEAN :
          IF ~ok
          THEN vals' = vals /\ resp' = Resp(500, "error") /\ spc' = "idle"
          ELSE /\ vals' = RowValues(sheet, req.row.n)
               /\ IF Get(vals', COL_FLAG) # SHIPPED
                  THEN resp' = Resp(200, "skip") /\ spc' = "idle"
                  ELSE IF Get(vals', COL_USER) = ""
                  THEN resp' = Resp(400, "no UserId") /\ spc' = "idle"
                  ELSE resp' = resp /\ spc' = "push"
    /\ UNCHANGED <<secret, sheet, req, pushes, served, parseVars, hookVars>>

\* msg_api.push_message(to=user_id, ...)
SnPush ==
    /\ spc = "push"
    /\ \E ok \in BOOLEAN :
          /\ pushes' = Append(pushes, [to |-> Get(vals, COL_USER), ok |-> ok])
          /\ spc' = PushNext(ok)
          /\ resp' = IF spc' = "idle" THEN Resp(500, "push failed") ELSE resp
    /\ UNCHANGED <<secret, sheet, req, vals, served, parseVars, hookVars>>

\* ws.update_cell(row, 11, ...); an exception ends the request in a 500
SnUpdate ==
    /\ spc = "update"
    /\ \E ok \in BOOLEAN :
          IF ok
          THEN /\ sheet' = UpdateCell(sheet, req.row.n, COL_NOTIFIED, NOTIFIED)
               /\ resp' = Resp(200, "ok")
          ELSE /\ sheet' = sheet
               /\ resp' = Resp(500, "error")
    /\ spc' = "idle"
    /\ UNCHANGED <<secret, req, vals, pushes, served, parseVars, hookVars>>

NextShip ==
    \/ SnRequest
    \/ SnValidate
    \/ SnRead
    \/ SnPush
    \/ SnUpdate

SpecShip == InitShip /\ [][NextShip]_vars

(***************************************************************************)
(* Specification of the parser: one call parse(text)                       *)
(***************************************************************************)
Init ==
    /\ text \in Texts
    /\ result = Unset
    /\ pc = "start"
    /\ HookIdle
    /\ ShipIdle

Parse ==
    /\ pc = "start"
    /\ result' = parse(text)
    /\ pc' = "done"
    /\ UNCHANGED <<text, hookVars, shipVars>>

Next == Parse

Spec == Init /\ [][Next]_vars

\* the same call on the texts of at most MaxSynFrags fragments
InitSyn ==
    /\ text \in { p \o b : p \in RecordPrefixes, b \in Bodies(MaxSynFrags) }
    /\ result = Unset
    /\ pc = "start"
    /\ HookIdle
    /\ ShipIdle

SpecSyn == InitSyn /\ [][Next]_vars

(***************************************************************************)
(* Vocabulary of the properties                                            *)
(***************************************************************************)
Done == pc = "done"

\* the text starts, after leading whitespace, with the record token followed
\* by a colon, a full-width colon or a whitespace character
HasRecordPrefix(t) ==
    \E i \in 1..(Len(t) - 2) :
        /\ \A j \in 1..(i - 1) : IsSpace(t[j])
        /\ t[i] \in {JI_TRAD, JI_SIMP}
        /\ t[i + 1] = LU
        /\ (t[i + 2] = ":" \/ t[i + 2] = FWCOLON \/ IsSpace(t[i + 2]))

HasColon(t) == \E i \in 1..Len(t) : t[i] \in {":", FWCOLON}

\* the record body of a text with a colon, and its fragments
BodyOf(t) == Strip(SplitOnce(t, Colons)[2])
PartsOf(t) == SplitParts(BodyOf(t))

NonBlank(p) == Strip(p) # <<>>
HasSep(p) == \E i \in 1..Len(p) : p[i] \in {"=", ":", FWCOLON}
SepAt(p) == FirstIn(p, {"=", ":", FWCOLON})
LabelOf(p) == SubSeq(p, 1, SepAt(p) - 1)
ValueOf(p) == Strip(SubSeq(p, SepAt(p) + 1, Len(p)))

\* the canonical field a fragment targets, "None" when it targets none
TargetOf(p) == IF NonBlank(p) /\ HasSep(p) THEN norm(LabelOf(p)) ELSE "None"

IsInfix(a, b) ==
    \E i \in 0..(Len(b) - Len(a)) : SubSeq(b, i + 1, i + Len(a)) = a

RemoveAt(sq, i) == SubSeq(sq, 1, i - 1) \o SubSeq(sq, i + 1, Len(sq))

HasChar(sq, c) == \E i \in 1..Len(sq) : sq[i] = c

\* the trimmed free-text fragments, in encounter order
RECURSIVE FreeTexts(_)
FreeTexts(parts) ==
    IF parts = <<>> THEN <<>>
    ELSE IF NonBlank(parts[1]) /\ ~HasSep(parts[1])
         THEN <<Strip(parts[1])>> \o FreeTexts(Tail(parts))
         ELSE FreeTexts(Tail(parts))

\* the field each fragment targets
Targets(parts) == [i \in 1..Len(parts) |-> TargetOf(parts[i])]

\* positions of the fragments that target field f, given the targets tg
Targeting(tg, f) == { i \in DOMAIN tg : tg[i] = f }

LastOf(S) == CHOOSE i \in S : \A j \in S : j <= i

IsRecord == Done /\ result.kind = "record"

(***************************************************************************)
(* Properties of parse                                                     *)
(***************************************************************************)

\* C1: every text that matches the record prefix makes parse return a
\* record: never the not-a-record signal, never an error, also when the
\* prefix ends in whitespace and the text holds no colon.
C1_PrefixAlwaysRecord ==
    (Done /\ HasRecordPrefix(text)) => result.kind = "record"

\* C2: every text that does not start (after leading whitespace) with the
\* record token followed by a colon, full-width colon or whitespace makes
\* parse return the not-a-record signal and no record.
C2_NoPrefixNotARecord ==
    (Done /\ ~HasRecordPrefix(text)) => result = NotARecord

C2_Witness ==
    /\ Done
    /\ text = <<JI_TRAD, LU, "=", PIN, XIANG, "=", "A">>
    /\ result = NotARecord

\* C3: a qty value written with a thousands separator, as in the text
\* <record>:<qty label>=1,000, comes back as the integer 1000, and no part
\* of the value ends up in note.
C3_ThousandsSeparator ==
    (Done /\ text = <<JI_TRAD, LU, ":", SHU, LIANG, "=", "1", ",", "0", "0", "0">>)
        => (result.kind = "record"
            /\ result.r.qty = IntV(1000)
            /\ result.r.note = NoneV)

\* C4: every non-empty fragment of the body without "=", ":" or full-width
\* colon survives: the final note contains these fragments, trimmed, in
\* encounter order, joined with " | ", whatever else the body contains.
C4_FreeTextSurvives ==
    (Done /\ HasRecordPrefix(text) /\ HasColon(text)
          /\ FreeTexts(PartsOf(text)) # <<>>)
        => (result.kind = "record"
            /\ result.r.note.t = "str"
            /\ IsInfix(Join(FreeTexts(PartsOf(text)), NoteJoin), result.r.note.s))

\* C5: last-write-wins: item, qty and price are each decided by the last
\* fragment that targets the field (for qty and price by the coercion of
\* that last value, parsable or not); a field no fragment targets is absent.
C5_LastWriteWins ==
    IsRecord =>
        LET parts == PartsOf(text)
            tg    == Targets(parts)
        IN  \A f \in {"item", "qty", "price"} :
                LET T == Targeting(tg, f)
                IN  IF T = {} THEN result.r[f] = NoneV
                    ELSE LET v == ValueOf(parts[LastOf(T)])
                         IN  result.r[f] = IF f = "item" THEN StrV(v) ELSE num(StrV(v))

\* a parsable qty followed by an unparsable one: the result holds no qty
C5_Witness ==
    /\ IsRecord
    /\ LET parts == PartsOf(text)
           T == Targeting(Targets(parts), "qty")
       IN  /\ Cardinality(T) >= 2
           /\ \E i \in T : i # LastOf(T) /\ num(StrV(ValueOf(parts[i]))).t = "int"
           /\ num(StrV(ValueOf(parts[LastOf(T)]))) = NoneV
           /\ result.r.qty = NoneV

\* C6: a fragment that splits into label and value but whose label is no
\* synonym of any field changes nothing: the record equals the record of
\* the same body without that fragment.
C6_UnresolvedLabelDropped ==
    IsRecord =>
        LET parts == PartsOf(text)
        IN  \A i \in 1..Len(parts) :
                (NonBlank(parts[i]) /\ HasSep(parts[i]) /\ TargetOf(parts[i]) = "None")
                    => ParseBody(Join(RemoveAt(parts, i), <<",">>)) = result

\* an unresolved fragment next to fragments that do set item and note
C6_Witness ==
    /\ IsRecord
    /\ \E i \in 1..Len(PartsOf(text)) :
           LET p == PartsOf(text)[i]
           IN  NonBlank(p) /\ HasSep(p) /\ TargetOf(p) = "None"
    /\ result.r.item # NoneV
    /\ result.r.note # NoneV

\* C7: quantity and price of a returned record are None or a number, never
\* the string: the chosen value, commas removed and trimmed, gives a decimal
\* or None when it contains ".", an integer or None when it does not.
C7_NumericOrAbsent ==
    IsRecord =>
        LET parts == PartsOf(text)
            tg    == Targets(parts)
        IN  \A f \in {"qty", "price"} :
                /\ result.r[f].t \in {"None", "int", "float"}
                /\ LET T == Targeting(tg, f)
                   IN  T # {} =>
                         LET s == NumText(ValueOf(parts[LastOf(T)]))
                         IN  IF HasChar(s, ".")
                             THEN result.r[f].t \in {"float", "None"}
                             ELSE result.r[f].t \in {"int", "None"}

\* an unparsable qty next to a decimal price
C7_Witness ==
    /\ IsRecord
    /\ Targeting(Targets(PartsOf(text)), "qty") # {}
    /\ result.r.qty = NoneV
    /\ result.r.price = FloatV(55, -1)

\* str.upper() on the letters of the aliases
UpperChar(c) ==
    IF \E i \in 1..26 : LowerAZ[i] = c
    THEN UpperAZ[CHOOSE i \in 1..26 : LowerAZ[i] = c]
    ELSE c

Upper(s) == [i \in 1..Len(s) |-> UpperChar(s[i])]

\* first letter in upper case, the rest as written
Capitalized(s) == [i \in 1..Len(s) |-> IF i = 1 THEN UpperChar(s[i]) ELSE s[i]]

AliasSet(f) == { ALIASES[f][j] : j \in 1..Len(ALIASES[f]) }

\* spellings of an alias: letter case changed, blanks and tabs around it
Spellings(a) ==
    { a, Upper(a), <<" ">> \o Capitalized(a) \o <<"\t">>, <<IDSPACE>> \o a }

\* spellings that also put a line break after the label
SpellingsAnySpace(a) == Spellings(a) \cup { a \o <<"\n">> }

ReplaceAt(sq, i, x) == [sq EXCEPT ![i] = x]

\* fragment p with its label replaced by lab
Relabel(p, lab) == lab \o SubSeq(p, SepAt(p), Len(p))

\* the record of the body in which fragment i carries label lab
Relabelled(parts, i, lab) ==
    ParseBody(Join(ReplaceAt(parts, i, Relabel(parts[i], lab)), <<",">>))

\* norm resolves a label to a field exactly when the label, trimmed and in
\* lower case, is one of the field's aliases
NormExact(lab) ==
    \A i \in 1..4 :
        (norm(lab) = Fields[i]) <=> (Lower(Strip(lab)) \in AliasSet(Fields[i]))

\* C8 as stated: norm matches exactly (trimmed, lower case, no partial
\* match), so replacing a label by any synonym of the same field, in any
\* letter case and with any surrounding whitespace, leaves the record
\* returned by parse unchanged.
C8_SynonymsAnyWhitespace ==
    IsRecord =>
        LET parts == PartsOf(text)
        IN  \A i \in 1..Len(parts) :
                (NonBlank(parts[i]) /\ HasSep(parts[i])) =>
                    /\ NormExact(LabelOf(parts[i]))
                    /\ LET f == TargetOf(parts[i])
                       IN  f # "None" =>
                             \A a \in AliasSet(f) :
                                 \A lab \in SpellingsAnySpace(a) :
                                     Relabelled(parts, i, lab) = result

\* C8 amended: the same, for surrounding whitespace that is no line break
\* (a line break is a fragment delimiter and cuts the label off its value).
C8_SynonymEquivalence ==
    IsRecord =>
        LET parts == PartsOf(text)
        IN  \A i \in 1..Len(parts) :
                (NonBlank(parts[i]) /\ HasSep(parts[i])) =>
                    /\ NormExact(LabelOf(parts[i]))
                    /\ LET f == TargetOf(parts[i])
                       IN  f # "None" =>
                             \A a \in AliasSet(f) :
                                 \A lab \in Spellings(a) :
                                     Relabelled(parts, i, lab) = result

\* a record whose item comes from a label written in mixed case with blanks,
\* next to a label that is only part of an alias and resolves to nothing
C8_Witness ==
    /\ IsRecord
    /\ result.r.item = StrV(<<"B">>)
    /\ \E i \in 1..Len(PartsOf(text)) :
           /\ HasSep(PartsOf(text)[i])
           /\ LabelOf(PartsOf(text)[i]) = <<PIN>>
           /\ TargetOf(PartsOf(text)[i]) = "None"

(***************************************************************************)
(* Properties of the webhook handler                                       *)
(***************************************************************************)
CallsFor(k, op) == { i \in 1..Len(log) : log[i].ev = k /\ log[i].op = op }

\* what the handler owes text event k of a delivery whose loop was entered
Handled(k) ==
    LET d == parse(Strip(events[k].text))
    IN  /\ d.kind = "None" =>
              /\ CallsFor(k, "append") = {}
              /\ CallsFor(k, "hint") # {}
        /\ d.kind = "record" =>
              /\ Cardinality(CallsFor(k, "append")) = 1
              /\ \A j \in CallsFor(k, "confirm") :
                     \E i \in CallsFor(k, "append") : i < j /\ log[i].ok

HandlerEnded == hpc \in {"returned", "crashed"}

\* C9: in a delivery whose events the handler loops over, every text event
\* is handled: not-a-record gets no row and an attempted usage hint, a
\* record gets exactly one attempted append and its confirmation only
\* after the append succeeded; a failure while handling one event does not
\* keep the remaining events from being handled.
C9_EveryTextEventHandled ==
    (HandlerEnded /\ cursor >= 1) =>
        \A k \in 1..Len(events) : events[k].isText => Handled(k)

\* the same for the deliveries in which no call of parse raises
C9_HandledUnlessParseRaises ==
    (hpc = "returned" /\ cursor >= 1) =>
        \A k \in 1..Len(events) : events[k].isText => Handled(k)

(***************************************************************************)
(* Properties of ship_notify                                               *)
(***************************************************************************)
RequestedRow == RowValues(sheet, req.row.n)

\* the step changes the sheet in the notified cell of the requested row only
OnlyNotifiedCellWritten ==
    /\ DOMAIN sheet' = DOMAIN sheet
    /\ \A r \in DOMAIN sheet :
          IF r = req.row.n
          THEN /\ Get(sheet'[r], COL_NOTIFIED) = NOTIFIED
               /\ \A c \in 1..COL_NOTIFIED :
                      c # COL_NOTIFIED => Get(sheet'[r], c) = Get(sheet[r], c)
          ELSE sheet'[r] = sheet[r]

\* C10: the notified cell (column 11) of the requested row is written only
\* after a push to the UserId in column 2 of that row succeeded in the same
\* request; a push is attempted only when the secret check passes, row > 1,
\* column 10 holds the ship flag and the UserId is not empty; on every
\* other path the sheet stays as it was.
C10_WriteOnlyAfterPush ==
    [][ /\ sheet' # sheet =>
              /\ pushes # <<>>
              /\ pushes[Len(pushes)].ok
              /\ pushes[Len(pushes)].to = Get(RequestedRow, COL_USER)
              /\ OnlyNotifiedCellWritten
        /\ Len(pushes') > Len(pushes) =>
              /\ SecretPasses(secret, req.header)
              /\ req.row.k = "int" /\ req.row.n > 1
              /\ Get(RequestedRow, COL_FLAG) = SHIPPED
              /\ Get(RequestedRow, COL_USER) # ""
              /\ pushes'[Len(pushes')].to = Get(RequestedRow, COL_USER)
      ]_vars

\* a second request, answered 200 after its push to U1 and the write-back
C10_Witness ==
    /\ served = 2
    /\ spc = "idle"
    /\ resp = Resp(200, "ok")
    /\ pushes = << [to |-> "U1", ok |-> TRUE] >>
    /\ Get(RequestedRow, COL_NOTIFIED) = NOTIFIED

====
